---- MODULE Spec2Model ----
(***************************************************************************)
(* Technician booking backend: the booking store and the scheduling /      *)
(* conflict engine (app/services/booking_service.py, validation.py,        *)
(* schemas/booking.py) as a state machine.                                 *)
(*                                                                         *)
(* Time is counted in half-hour ticks.  A datetime is a record             *)
(* [t, aware]: t is the instant, aware tells whether the Python datetime   *)
(* carries a tzinfo.  Python refuses to order a naive and an aware         *)
(* datetime (TypeError), which Comparable states.                          *)
(***************************************************************************)
EXTENDS Integers, FiniteSets, Sequences, TLC

(* ------------------------------ bounds -------------------------------- *)
\* number of uuid4 values drawn (bookings ever created)
MaxIds == 2
\* latest start instant a request may carry, in ticks
MaxTime == 4
\* latest reading of the wall clock, in ticks
MaxNow == 1
\* worker threads of the server's thread pool
NThreads == 2

(* ------------------------- program constants -------------------------- *)
\* timedelta(hours=1), in half-hour ticks
Hour == 2

(* --------------------------- input domains ---------------------------- *)
Ids == 1..MaxIds
Threads == 1..NThreads
Technicians == {"Bob", "bob", "Amy"}
Customers == {"John Doe"}
\* naive datetimes at every instant; timezone-aware ones at the first and the
\* last instant (one that can be in the past, one that never is)
DateTimes ==
    [t : 0..MaxTime, aware : {FALSE}] \cup [t : {0, MaxTime}, aware : {TRUE}]
\* request bodies: every technician at every datetime with a supported
\* profession, and the placeholder profession for one technician at the first
\* and the last instant
RawRequests ==
    [customer_name : Customers, technician_name : Technicians,
     profession : {"plumber"}, start_time : DateTimes]
    \cup
    [customer_name : Customers, technician_name : {"bob"},
     profession : {"Unknown Profession"},
     start_time : [t : {0, MaxTime}, aware : {FALSE}]]

\* the request bodies with a naive start and a supported profession
QueryRequests ==
    [customer_name : Customers, technician_name : Technicians,
     profession : {"plumber"}, start_time : [t : 0..MaxTime, aware : {FALSE}]]

\* request bodies of the calls made with system_init=True: the flag is for
\* bookings whose start has passed, so these start at the first instant
SeedRequests ==
    [customer_name : Customers, technician_name : Technicians,
     profession : {"plumber"}, start_time : [t : {0}, aware : BOOLEAN]]

(* --------------------------- string helpers --------------------------- *)
\* str.lower() on the strings of the model
Lower(s) ==
    CASE s = "Bob" -> "bob"
      [] s = "Amy" -> "amy"
      [] s = "WELDER" -> "welder"
      [] s = "Plumber" -> "plumber"
      [] s = "Welder" -> "welder"
      [] s = "Electrician" -> "electrician"
      [] s = "Unknown Profession" -> "unknown profession"
      [] s = "Unknown Tech" -> "unknown tech"
      [] OTHER -> s

\* str.title() on the strings of the model
Title(s) ==
    CASE s = "plumber" -> "Plumber"
      [] s = "welder" -> "Welder"
      [] s = "electrician" -> "Electrician"
      [] s = "WELDER" -> "Welder"
      [] OTHER -> s

\* keys of settings.PROFESSION_KEYWORDS (three of the eleven)
PROFESSION_KEYWORDS == {"plumber", "welder", "electrician"}

(* ------------------------------ datetimes ----------------------------- *)
Naive(n) == [t |-> n, aware |-> FALSE]

\* datetime.now(ZoneInfo(tz)), or datetime(..., tzinfo=ZoneInfo(tz))
Aware(n) == [t |-> n, aware |-> TRUE]

\* Python orders two datetimes only when both are naive or both are aware
Comparable(a, b) == a.aware = b.aware

\* start_time + timedelta(hours=1): tzinfo is kept
PlusHour(d) == [t |-> d.t + Hour, aware |-> d.aware]

(* ------------------------------- state -------------------------------- *)
VARIABLES
    store,    \* in_memory_bookings_db: booking id -> Booking
    nextId,   \* the next uuid4 value (ids are drawn fresh)
    now,      \* the wall clock read by datetime.now()
    result,   \* what the last sequential call returned or raised
    th,       \* per worker thread: position inside a running handler
    live,     \* history: the bookings returned by successful creates whose
              \* id no cancel has returned true for since
    current_time,  \* DateTimeExtractor.current_time, read once at construction
    parsed,   \* what the last parse_user_input call returned or raised
    helper    \* the last call of a helper of the interpreter made on its
              \* own: its name, its arguments and what it returned

vars == <<store, nextId, now, result, th, live, current_time, parsed, helper>>

\* the state of the command interpreter
nlpVars == <<current_time, parsed, helper>>

\* a Booking built with end_time=start_time
BookingEndIsStart(id, data, start_time, end_time) ==
    [id |-> id, customer_name |-> data.customer_name,
     technician_name |-> data.technician_name, profession |-> data.profession,
     start_time |-> start_time, end_time |-> start_time]

\* a Booking (app/models/booking.py)
Booking(id, data, start_time, end_time) ==
    [id |-> id, customer_name |-> data.customer_name,
     technician_name |-> data.technician_name, profession |-> data.profession,
     start_time |-> start_time, end_time |-> end_time]

\* the outcome of a call: kind is "ok" or the error, id the booking concerned,
\* from/to the interval an error message names (-1: none)
Outcome(op, kind, id, from, to) ==
    [op |-> op, kind |-> kind, id |-> id, from |-> from, to |-> to]

NoResult == Outcome("none", "none", 0, -1, -1)

\* no helper called yet
NoHelper == [op |-> "none"]

\* no parse_user_input call made yet
NoParse ==
    [op |-> "none", text |-> "", kind |-> "none", intent |-> "",
     confidence |-> 0, consulted |-> FALSE,
     data |-> [booking_id |-> 0, customer_name |-> "", technician_name |-> "",
               profession |-> "", start_time |-> Naive(0)],
     path |-> "none"]

(* ----------------------- schemas/booking.py --------------------------- *)
\* BookingBase.validate_profession: the title-cased profession must be a
\* title-cased key of the keyword table
SchemaAccepts(raw) ==
    Title(raw.profession) \in {Title(p) : p \in PROFESSION_KEYWORDS}

\* the BookingCreate built from accepted input: the validator returns the
\* title-cased profession
BookingCreate(raw) == [raw EXCEPT !.profession = Title(raw.profession)]

(* ----------------------- services/validation.py ----------------------- *)
\* TRUE when the profession passes (no ValueError)
validate_profession(profession) ==
    Lower(profession) \in {Lower(p) : p \in PROFESSION_KEYWORDS}

\* "ok", or the error raised; technician_name and existing_bookings are not
\* passed by create_booking, so the conflict branch of the validator is skipped
validate_booking_time(start_time, end_time, system_init, clock) ==
    IF ~system_init /\ ~Comparable(start_time, Naive(clock))
    THEN "NaiveAwareCompare"
    ELSE IF ~system_init /\ start_time.t < clock
    THEN "PastBooking"
    ELSE IF end_time # PlusHour(start_time)
    THEN "NotOneHour"
    ELSE "ok"

(* -------------------- services/booking_service.py --------------------- *)
\* the technician comparison without .lower()
SameTechnicianExact(existing, technician_name) ==
    existing.technician_name = technician_name

\* the technician comparison left out of the scan
SameTechnicianAny(existing, technician_name) == TRUE

\* existing_booking.technician_name.lower() == booking_data.technician_name.lower()
SameTechnician(existing, technician_name) ==
    Lower(existing.technician_name) = Lower(technician_name)

\* the overlap test reduced to an equal start
OverlapsSameStart(start_time, end_time, existing) ==
    start_time.t = existing.start_time.t

\* the overlap test with strict comparisons: a touching boundary conflicts
OverlapsClosed(start_time, end_time, existing) ==
    ~(end_time.t < existing.start_time.t \/ start_time.t > existing.end_time.t)

\* not (end_time <= existing.start_time or start_time >= existing.end_time)
Overlaps(start_time, end_time, existing) ==
    ~(end_time.t <= existing.start_time.t \/ start_time.t >= existing.end_time.t)

\* the comparisons of the overlap test raise TypeError on mixed awareness
ScanComparable(start_time, end_time, existing) ==
    /\ Comparable(end_time, existing.start_time)
    /\ Comparable(start_time, existing.end_time)

\* the bookings at which the scan of db.values() stops: same technician and
\* either an overlap or an impossible comparison
ScanStops(db, technician_name, start_time, end_time) ==
    {i \in DOMAIN db :
        /\ SameTechnician(db[i], technician_name)
        /\ \/ ~ScanComparable(start_time, end_time, db[i])
           \/ Overlaps(start_time, end_time, db[i])}

\* a dict iterates in insertion order, which is the order of the ids drawn
FirstOf(S) == CHOOSE i \in S : \A j \in S : i <= j

\* an insertion under the first key drawn, whatever the booking's id
InsertAtFirstKey(db, b) ==
    [i \in DOMAIN db \cup {1} |-> IF i = 1 THEN b ELSE db[i]]

\* in_memory_bookings_db[new_booking.id] = new_booking
Insert(db, b) ==
    [i \in DOMAIN db \cup {b.id} |-> IF i = b.id THEN b ELSE db[i]]

\* end_time = start_time + timedelta(hours=1)
EndTime(start_time) == PlusHour(start_time)

\* a create that inserts the new booking before it scans the others
create_booking_insert_first(data, db, clock, nid) ==
    LET start_time == data.start_time
        end_time == EndTime(start_time)
        vt == validate_booking_time(start_time, end_time, FALSE, clock)
        stops == ScanStops(db, data.technician_name, start_time, end_time)
        added == Insert(db, Booking(nid, data, start_time, end_time))
    IN  IF ~validate_profession(data.profession)
        THEN [db |-> db, out |-> Outcome("create", "UnsupportedProfession", 0, -1, -1)]
        ELSE IF vt # "ok"
        THEN [db |-> db, out |-> Outcome("create", vt, 0, -1, -1)]
        ELSE IF stops # {}
        THEN LET e == db[FirstOf(stops)]
             IN  IF ~ScanComparable(start_time, end_time, e)
                 THEN [db |-> added,
                       out |-> Outcome("create", "NaiveAwareCompare", 0, -1, -1)]
                 ELSE [db |-> added,
                       out |-> Outcome("create", "TimeConflict", e.id,
                                       e.start_time.t, e.end_time.t)]
        ELSE [db |-> added, out |-> Outcome("create", "ok", nid, -1, -1)]

\* create_booking(booking_data) on store db at clock reading clock, nid being
\* the id uuid4 gives the new booking: the store afterwards and the outcome
create_booking(data, db, clock, nid) ==
    LET start_time == data.start_time
        end_time == EndTime(start_time)
        vt == validate_booking_time(start_time, end_time, FALSE, clock)
        stops == ScanStops(db, data.technician_name, start_time, end_time)
    IN  IF ~validate_profession(data.profession)
        THEN [db |-> db, out |-> Outcome("create", "UnsupportedProfession", 0, -1, -1)]
        ELSE IF vt # "ok"
        THEN [db |-> db, out |-> Outcome("create", vt, 0, -1, -1)]
        ELSE IF stops # {}
        THEN LET e == db[FirstOf(stops)]
             IN  IF ~ScanComparable(start_time, end_time, e)
                 THEN [db |-> db,
                       out |-> Outcome("create", "NaiveAwareCompare", 0, -1, -1)]
                 ELSE [db |-> db,
                       out |-> Outcome("create", "TimeConflict", e.id,
                                       e.start_time.t, e.end_time.t)]
        ELSE [db |-> Insert(db, Booking(nid, data, start_time, end_time)),
              out |-> Outcome("create", "ok", nid, -1, -1)]

\* in_memory_bookings_db.clear() in place of the del
DeleteAll(db, booking_id) == [i \in {} |-> db[i]]

\* del in_memory_bookings_db[booking_id]
Delete(db, booking_id) == [i \in DOMAIN db \ {booking_id} |-> db[i]]

\* delete_booking_by_id without the membership test: del raises KeyError
delete_unchecked(db, booking_id) ==
    IF booking_id \in DOMAIN db
    THEN [db |-> Delete(db, booking_id), ret |-> "True"]
    ELSE [db |-> db, ret |-> "KeyError"]

\* a delete that answers True and keeps the booking
delete_booking_kept(db, booking_id) ==
    IF booking_id \in DOMAIN db
    THEN [db |-> db, ret |-> "True"]
    ELSE [db |-> db, ret |-> "False"]

\* delete_booking_by_id(booking_id): the store afterwards and the value returned
delete_booking_by_id(db, booking_id) ==
    IF booking_id \in DOMAIN db
    THEN [db |-> Delete(db, booking_id), ret |-> "True"]
    ELSE [db |-> db, ret |-> "False"]

\* cancel_booking(booking_id)
cancel_booking(db, booking_id) == delete_booking_by_id(db, booking_id)

\* Python's None where a Booking is expected
None == [id |-> 0]

\* get_booking_by_id: in_memory_bookings_db.get(booking_id)
get_booking_by_id(db, booking_id) ==
    IF booking_id \in DOMAIN db THEN db[booking_id] ELSE None

\* list(in_memory_bookings_db.values())[:1]
get_first_booking(db) ==
    {db[i] : i \in {j \in DOMAIN db : \A k \in DOMAIN db : j <= k}}

\* get_all_bookings: list(in_memory_bookings_db.values()); the ids being
\* distinct, the list has no duplicates and is taken as a set
get_all_bookings(db) == {db[i] : i \in DOMAIN db}

\* a call create_booking(BookingCreate(**raw)) or, with system_init,
\* create_booking(BookingCreate(**raw), system_init=True): the function
\* takes one parameter, so the keyword is refused by the call itself
CallCreate(raw, system_init, db, clock, nid) ==
    IF ~SchemaAccepts(raw)
    THEN [db |-> db, out |-> Outcome("create", "ValidationError", 0, -1, -1)]
    ELSE IF system_init
    THEN [db |-> db, out |-> Outcome("create", "UnexpectedKeyword", 0, -1, -1)]
    ELSE create_booking(BookingCreate(raw), db, clock, nid)

\* a worker thread outside any handler
NoData ==
    [customer_name |-> "", technician_name |-> "", profession |-> "",
     start_time |-> Naive(0)]

Idle == [pc |-> "idle", data |-> NoData, size |-> 0, pos |-> 0, id |-> 0]

(* ------------------------ sequential operations ----------------------- *)
Init ==
    /\ store = [i \in {} |-> 0]
    /\ nextId = 1
    /\ now = 0
    /\ result = NoResult
    /\ th = [t \in Threads |-> Idle]
    /\ live = {}
    /\ current_time = Aware(now)
    /\ parsed = NoParse
    /\ helper = NoHelper

\* one whole create call
CreateBooking(raw, system_init) ==
    /\ LET r == CallCreate(raw, system_init, store, now, nextId)
       IN  /\ r.out.kind = "ok" => nextId <= MaxIds
           /\ result' = r.out
           /\ store' = r.db
           /\ nextId' = IF r.out.kind = "ok" THEN nextId + 1 ELSE nextId
           /\ live' = IF r.out.kind = "ok"
                      THEN live \cup {r.db[r.out.id]} ELSE live
    /\ UNCHANGED <<now, th>>
    /\ UNCHANGED nlpVars

\* one whole cancel call
CancelBooking(booking_id) ==
    /\ LET r == cancel_booking(store, booking_id)
       IN  /\ store' = r.db
           /\ result' = Outcome("cancel", r.ret, 0, -1, -1)
           /\ live' = IF r.ret = "True"
                      THEN {b \in live : b.id # booking_id} ELSE live
    /\ UNCHANGED <<nextId, now, th>>
    /\ UNCHANGED nlpVars

\* the wall clock advances
Tick ==
    /\ now < MaxNow
    /\ now' = now + 1
    /\ UNCHANGED <<store, nextId, result, th, live>>
    /\ UNCHANGED nlpVars

\* the value a read returned: op is "list" or "get", arg the id asked for
ReadOutcome(op, arg, value) ==
    [op |-> op, kind |-> "ok", id |-> arg, from |-> -1, to |-> -1,
     value |-> value]

\* one whole get_all_bookings call
ListBookings ==
    /\ result' = ReadOutcome("list", 0, get_all_bookings(store))
    /\ UNCHANGED <<store, nextId, now, th, live>>
    /\ UNCHANGED nlpVars

\* one whole get_booking_by_id call
GetBooking(booking_id) ==
    /\ result' = ReadOutcome("get", booking_id,
                             get_booking_by_id(store, booking_id))
    /\ UNCHANGED <<store, nextId, now, th, live>>
    /\ UNCHANGED nlpVars

Next ==
    \/ \E raw \in RawRequests : CreateBooking(raw, FALSE)
    \/ \E raw \in SeedRequests : CreateBooking(raw, TRUE)
    \/ \E booking_id \in Ids : CancelBooking(booking_id)
    \/ Tick

Spec == Init /\ [][Next]_vars

(* ------------------- creates from interpreted data -------------------- *)
\* the keys create_booking_from_llm requires
required_keys == {"customer_name", "technician_name", "profession", "start_time"}

\* the dicts handed to create_booking_from_llm: the bookings of one
\* technician at every instant, and dicts in which a required key is missing
LlmParsed ==
    [customer_name : Customers, technician_name : {"Bob"},
     profession : {"plumber"}, start_time : [t : 0..MaxTime, aware : {FALSE}]]
    \cup [customer_name : Customers, technician_name : {"Bob"},
          profession : {"plumber"}]
    \cup [customer_name : Customers, technician_name : {"Amy"},
          start_time : [t : {MaxTime}, aware : {FALSE}]]

\* create_booking_from_llm(parsed_data): the ValueError of a missing key, or
\* what create_booking(BookingCreate(...)) does
create_booking_from_llm(parsed_data, db, clock, nid) ==
    IF ~(required_keys \subseteq DOMAIN parsed_data)
    THEN [db |-> db, out |-> Outcome("create", "MissingField", 0, -1, -1)]
    ELSE CallCreate(parsed_data, FALSE, db, clock, nid)

\* one whole create_booking_from_llm call
CreateBookingFromLlm(parsed_data) ==
    /\ \E r \in {create_booking_from_llm(parsed_data, store, now, nextId)} :
           /\ r.out.kind = "ok" => nextId <= MaxIds
           /\ result' = r.out
           /\ store' = r.db
           /\ nextId' = IF r.out.kind = "ok" THEN nextId + 1 ELSE nextId
           /\ live' = IF r.out.kind = "ok"
                      THEN live \cup {r.db[r.out.id]} ELSE live
    /\ UNCHANGED <<now, th>>
    /\ UNCHANGED nlpVars

\* the request bodies of the direct creates: those that name one technician,
\* in either letter case
StoreRequests == {raw \in RawRequests : Lower(raw.technician_name) = "bob"}

NextStore ==
    \/ \E raw \in StoreRequests : CreateBooking(raw, FALSE)
    \/ \E parsed_data \in LlmParsed : CreateBookingFromLlm(parsed_data)
    \/ \E booking_id \in Ids : CancelBooking(booking_id)
    \/ Tick

SpecStore == Init /\ [][NextStore]_vars

(* ------------------------- core/initial_data.py ----------------------- *)
\* parse("15/10/2022 10:00 AM"), in ticks before the first reading of the
\* clock: the seed bookings are dated 2022 and the process runs later
SeedEpoch == -200

\* initial_bookings with start_time_str parsed: 15/10/2022 10:00,
\* 16/10/2022 18:00 and 18/10/2022 11:00, naive
initial_bookings ==
    <<[customer_name |-> "Nicolas Woollett",
       technician_name |-> "Nicolas Woollett",
       profession |-> "Plumber", start_time |-> Naive(SeedEpoch)],
      [customer_name |-> "Franky Flay", technician_name |-> "Franky Flay",
       profession |-> "Electrician",
       start_time |-> Naive(SeedEpoch + 32 * Hour)],
      [customer_name |-> "Griselda Dickson",
       technician_name |-> "Griselda Dickson",
       profession |-> "Welder", start_time |-> Naive(SeedEpoch + 73 * Hour)]>>

\* the loop of load_initial_data from item i on: the store and the next id
\* afterwards, and "ok" or the exception that ends the loop
RECURSIVE SeedFrom(_, _, _, _)
SeedFrom(i, db, clock, nid) ==
    IF i > Len(initial_bookings)
    THEN [db |-> db, nid |-> nid, kind |-> "ok"]
    ELSE LET r == CallCreate(initial_bookings[i], FALSE, db, clock, nid)
         IN  IF r.out.kind # "ok"
             THEN [db |-> r.db, nid |-> nid, kind |-> r.out.kind]
             ELSE SeedFrom(i + 1, r.db, clock, nid + 1)

\* load_initial_data(): returns at once on a store that is not empty
load_initial_data(db, clock, nid) ==
    IF DOMAIN db # {}
    THEN [db |-> db, nid |-> nid, kind |-> "ok"]
    ELSE SeedFrom(1, db, clock, nid)

\* one whole load_initial_data call (startup_event re-raises its exception)
LoadInitialData ==
    /\ \E r \in {load_initial_data(store, now, nextId)} :
           /\ r.nid <= MaxIds + Len(initial_bookings) + 1
           /\ store' = r.db
           /\ nextId' = r.nid
           /\ result' = Outcome("seed", r.kind, 0, -1, -1)
           /\ live' = live \cup {r.db[i] : i \in DOMAIN r.db \ DOMAIN store}
    /\ UNCHANGED <<now, th>>
    /\ UNCHANGED nlpVars

\* startup seeding among creates, cancels and clock ticks
NextSeed ==
    \/ LoadInitialData
    \/ \E raw \in QueryRequests : CreateBooking(raw, FALSE)
    \/ \E booking_id \in Ids : CancelBooking(booking_id)
    \/ Tick

SpecSeed == Init /\ [][NextSeed]_vars

\* creates, cancels and the two reads; the requests are the ones with a
\* supported profession and a naive start
NextQuery ==
    \/ \E raw \in QueryRequests : CreateBooking(raw, FALSE)
    \/ \E booking_id \in Ids : CancelBooking(booking_id)
    \/ ListBookings
    \/ \E booking_id \in Ids : GetBooking(booking_id)
    \/ Tick

SpecQuery == Init /\ [][NextQuery]_vars

(* ------------------------ concurrent operations ----------------------- *)
(* The routes of routers/bookings.py are plain def functions, which the    *)
(* server runs on worker threads; booking_service.py takes no lock.  A     *)
(* handler is therefore a sequence of steps that the steps of the other    *)
(* threads interleave with: the checks on the request (which read no       *)
(* shared state but the clock), each step of the iteration over            *)
(* in_memory_bookings_db.values(), and the insert.                         *)

\* creates that have passed their checks and have not yet inserted
InFlight == {u \in Threads : th[u].pc \in {"scan", "insert"}}

\* create_booking up to the for statement: the request is checked and the
\* iterator over the values of the dict is made, which records the dict's size
T_CreateBegin(t, raw) ==
    /\ th[t].pc = "idle"
    /\ nextId + Cardinality(InFlight) <= MaxIds
    /\ LET data == BookingCreate(raw)
           vt == validate_booking_time(data.start_time, EndTime(data.start_time),
                                       FALSE, now)
       IN  IF ~SchemaAccepts(raw)
           THEN /\ result' = Outcome("create", "ValidationError", 0, -1, -1)
                /\ th' = th
           ELSE IF ~validate_profession(data.profession)
           THEN /\ result' = Outcome("create", "UnsupportedProfession", 0, -1, -1)
                /\ th' = th
           ELSE IF vt # "ok"
           THEN /\ result' = Outcome("create", vt, 0, -1, -1)
                /\ th' = th
           ELSE /\ result' = result
                /\ th' = [th EXCEPT ![t] =
                            [pc |-> "scan", data |-> data,
                             size |-> Cardinality(DOMAIN store), pos |-> 0,
                             id |-> 0]]
    /\ UNCHANGED <<store, nextId, now, live>>
    /\ UNCHANGED nlpVars

\* one step of the for statement: the iterator raises RuntimeError when the
\* dict's size is no longer the one it recorded, ends when no entry is left
\* after its position, and otherwise yields the next entry, on which the body
\* of the loop raises the conflict or goes on
T_ScanStep(t) ==
    /\ th[t].pc = "scan"
    /\ LET data == th[t].data
           start_time == data.start_time
           end_time == EndTime(start_time)
           rest == {i \in DOMAIN store : i > th[t].pos}
       IN  IF Cardinality(DOMAIN store) # th[t].size
           THEN /\ result' = Outcome("create", "RuntimeError", 0, -1, -1)
                /\ th' = [th EXCEPT ![t] = Idle]
           ELSE IF rest = {}
           THEN /\ result' = result
                /\ th' = [th EXCEPT ![t].pc = "insert"]
           ELSE LET e == store[FirstOf(rest)]
                IN  IF /\ SameTechnician(e, data.technician_name)
                       /\ ~ScanComparable(start_time, end_time, e)
                    THEN /\ result' = Outcome("create", "NaiveAwareCompare",
                                              0, -1, -1)
                         /\ th' = [th EXCEPT ![t] = Idle]
                    ELSE IF /\ SameTechnician(e, data.technician_name)
                            /\ Overlaps(start_time, end_time, e)
                    THEN /\ result' = Outcome("create", "TimeConflict", e.id,
                                              e.start_time.t, e.end_time.t)
                         /\ th' = [th EXCEPT ![t] = Idle]
                    ELSE /\ result' = result
                         /\ th' = [th EXCEPT ![t].pos = e.id]
    /\ UNCHANGED <<store, nextId, now, live>>
    /\ UNCHANGED nlpVars

\* the Booking is built (uuid4 drawn) and put into the dict
T_Insert(t) ==
    /\ th[t].pc = "insert"
    /\ LET data == th[t].data
       IN  store' = Insert(store, Booking(nextId, data, data.start_time,
                                          EndTime(data.start_time)))
    /\ nextId' = nextId + 1
    /\ result' = Outcome("create", "ok", nextId, -1, -1)
    /\ th' = [th EXCEPT ![t] = Idle]
    /\ live' = live \cup {Booking(nextId, th[t].data, th[t].data.start_time,
                                  EndTime(th[t].data.start_time))}
    /\ UNCHANGED now
    /\ UNCHANGED nlpVars

\* delete_booking_by_id: the membership test
T_CancelBegin(t, booking_id) ==
    /\ th[t].pc = "idle"
    /\ IF booking_id \in DOMAIN store
       THEN /\ th' = [th EXCEPT ![t] = [Idle EXCEPT !.pc = "del", !.id = booking_id]]
            /\ result' = result
       ELSE /\ th' = th
            /\ result' = Outcome("cancel", "False", 0, -1, -1)
    /\ UNCHANGED <<store, nextId, now, live>>
    /\ UNCHANGED nlpVars

\* delete_booking_by_id: the del statement, which raises KeyError when another
\* thread has removed the booking since the test
T_CancelDel(t) ==
    /\ th[t].pc = "del"
    /\ IF th[t].id \in DOMAIN store
       THEN /\ store' = Delete(store, th[t].id)
            /\ result' = Outcome("cancel", "True", 0, -1, -1)
            /\ live' = {b \in live : b.id # th[t].id}
       ELSE /\ store' = store
            /\ result' = Outcome("cancel", "KeyError", 0, -1, -1)
            /\ live' = live
    /\ th' = [th EXCEPT ![t] = Idle]
    /\ UNCHANGED <<nextId, now>>
    /\ UNCHANGED nlpVars

NextConc ==
    \/ \E t \in Threads, raw \in RawRequests : T_CreateBegin(t, raw)
    \/ \E t \in Threads : T_ScanStep(t)
    \/ \E t \in Threads : T_Insert(t)
    \/ \E t \in Threads, booking_id \in Ids : T_CancelBegin(t, booking_id)
    \/ \E t \in Threads : T_CancelDel(t)
    \/ Tick

SpecConc == Init /\ [][NextConc]_vars

(* ======================= command interpretation ======================== *)
(* utils/datetime_utils.py and services/nlp_service.py.  An instant is the  *)
(* same [t, aware] record, t counting half-hour ticks from midnight of day  *)
(* 0.  The three pretrained models are inputs: what the classifier, the      *)
(* labeling model and the generative model return is drawn from small sets.  *)

(* --------------------------- bounds and inputs ------------------------- *)
\* last day on which the wall clock is read
MaxDay == 1

\* timedelta(days=1), in ticks
Day == 48
\* BusinessHours.OPEN_HOUR, CLOSE_HOUR
OPEN_HOUR == 9
CLOSE_HOUR == 17
\* extract_datetime(text, max_retries=3)
max_retries == 3
\* settings.INTENT_CONFIDENCE_THRESHOLD = 0.4, in hundredths
INTENT_CONFIDENCE_THRESHOLD == 40
\* the confidence of a pattern match, 0.95, in hundredths
PATTERN_CONFIDENCE == 95

\* the hours of the day at which the clock is read: before opening, within
\* business hours, after closing
ClockHours == {8, 12, 20}
ClockTimes == {d * Day + h * Hour : d \in 0..MaxDay, h \in ClockHours}

\* what one call of the generative model gives: an exception, a text that is
\* not of the form "DATE: YYYY-MM-DD | TIME: HH:MM", a text of that form
\* whose numbers TimePoint refuses (a year before 2024, a month 13), a text
\* of that form whose numbers TimePoint accepts and the calendar does not
\* have (a 30th of February), or a text of that form naming a day, an hour
\* and a minute
LlmHours == {8, 9, 16, 17}
LlmValid ==
    [kind : {"valid"}, day : 0..(MaxDay + 1), hour : LlmHours, minute : {0, 30}]
LlmRejected == {[kind |-> "malformed"], [kind |-> "badrange"]}
LlmThrows == [kind |-> "throws"]
LlmNoDate == [kind |-> "nodate"]
LlmOutputs == LlmValid \cup LlmRejected \cup {LlmThrows, LlmNoDate}

\* the outputs of the successive calls of one extract_datetime: the loop asks
\* again only after a rejected output, so the calls after the first output
\* that is not rejected are never made (filled with "malformed")
RunOf(outs) ==
    [i \in 1..max_retries |->
        IF i <= Len(outs) THEN outs[i] ELSE [kind |-> "malformed"]]

\* runs that end in an accepted output or an exception, at the first, second
\* or third call
LlmRunsAnswered ==
    {RunOf(<<o>>) : o \in LlmOutputs \ LlmRejected}
    \cup {RunOf(<<[kind |-> "badrange"], o>>) : o \in LlmOutputs \ LlmRejected}
    \cup {RunOf(<<[kind |-> "malformed"], [kind |-> "badrange"], o>>) :
            o \in LlmOutputs \ LlmRejected}

\* runs of max_retries rejected outputs
LlmRunsRejected ==
    {RunOf(<<[kind |-> "malformed"], [kind |-> "badrange"], r>>) :
        r \in LlmRejected}

LlmRuns == LlmRunsAnswered \cup LlmRunsRejected

\* what dateutil's parse(text, fuzzy=True, default=current_time) finds in the
\* text: nothing (it raises), a time of day, or a date and a time of day
FuzzyResults ==
    {[kind |-> "fail"]}
    \cup [kind : {"time"}, hour : {8, 14, 20}]
    \cup [kind : {"date"}, day : {0}, hour : {14}]

(* ------------------------ utils/datetime_utils.py ---------------------- *)
\* dt.hour
HourOf(dt) == (dt.t % Day) \div Hour

\* the day of dt.date()
DayOf(dt) == dt.t \div Day

\* dt + timedelta(days=n)
PlusDays(dt, n) == [dt EXCEPT !.t = dt.t + n * Day]

\* dt.replace(hour=OPEN_HOUR, minute=0)
AtOpening(dt) == [dt EXCEPT !.t = DayOf(dt) * Day + OPEN_HOUR * Hour]

\* BusinessHours.is_within_hours
is_within_hours(dt) == OPEN_HOUR <= HourOf(dt) /\ HourOf(dt) < CLOSE_HOUR

\* an adjustment that leaves an hour at or after closing where it is
adjust_early_only(dt, strict) ==
    IF is_within_hours(dt)
    THEN [kind |-> "ok", dt |-> dt]
    ELSE IF strict
    THEN [kind |-> "BusinessHoursError", dt |-> dt]
    ELSE IF HourOf(dt) < OPEN_HOUR
    THEN [kind |-> "ok", dt |-> AtOpening(dt)]
    ELSE [kind |-> "ok", dt |-> dt]

\* BusinessHours.adjust_to_business_hours(dt, strict)
adjust_to_business_hours(dt, strict) ==
    IF is_within_hours(dt)
    THEN [kind |-> "ok", dt |-> dt]
    ELSE IF strict
    THEN [kind |-> "BusinessHoursError", dt |-> dt]
    ELSE IF HourOf(dt) < OPEN_HOUR
    THEN [kind |-> "ok", dt |-> AtOpening(dt)]
    ELSE [kind |-> "ok", dt |-> AtOpening(PlusDays(dt, 1))]

\* DateTimeExtractor._validate_llm_output: the format alone
validate_llm_output(out) == out.kind \in {"valid", "badrange", "nodate"}

\* TimePoint(...).to_datetime() of an output TimePoint accepts: timezone-aware
to_datetime(out) ==
    Aware(out.day * Day + out.hour * Hour + (out.minute \div 30))

\* DateTimeExtractor._fallback_datetime_extraction: the fields found in the
\* text replace those of current_time, whose tzinfo is kept
fallback_datetime_extraction(fz, ct) ==
    IF fz.kind = "fail"
    THEN [kind |-> "DateTimeExtractionError", dt |-> ct]
    ELSE LET day == IF fz.kind = "date" THEN fz.day ELSE DayOf(ct)
             parsed_dt == [ct EXCEPT !.t = day * Day + fz.hour * Hour
                                            + (ct.t % Hour)]
             later == IF parsed_dt.t <= ct.t
                      THEN PlusDays(parsed_dt, 1) ELSE parsed_dt
         IN  adjust_to_business_hours(later, FALSE)

\* the two validations of an accepted output in extract_datetime
AcceptedResult(out, ct) ==
    LET result0 == to_datetime(out)
        days_to_add == IF DayOf(result0) = DayOf(ct) THEN 7 ELSE 1
        result1 == IF result0.t <= ct.t
                   THEN PlusDays(result0, days_to_add) ELSE result0
    IN  IF ~is_within_hours(result1)
        THEN adjust_to_business_hours(result1, FALSE).dt
        ELSE result1

\* DateTimeExtractor._parse_llm_output: a TimePoint, or the
\* DateTimeExtractionError into which every failure is wrapped
parse_llm_output(out) ==
    IF validate_llm_output(out) /\ out.kind # "badrange"
    THEN "TimePoint" ELSE "DateTimeExtractionError"

\* DateTimeExtractor.extract_datetime from attempt i on: the datetime and the
\* path that gave it, or the exception that leaves the method; calls counts
\* the calls of text_interpreter and fuzzy those of the fuzzy fallback. Only
\* DateTimeExtractionError is caught: an exception of text_interpreter and
\* the ValueError of to_datetime leave the method as they are
RECURSIVE Attempt(_, _, _, _)
Attempt(i, run, fz, ct) ==
    IF run[i].kind = "throws"
    THEN [kind |-> "Exception", dt |-> ct, path |-> "none", calls |-> i,
          fuzzy |-> 0]
    ELSE IF parse_llm_output(run[i]) = "TimePoint"
    THEN IF run[i].kind = "nodate"
         THEN [kind |-> "ValueError", dt |-> ct, path |-> "none",
               calls |-> i, fuzzy |-> 0]
         ELSE [kind |-> "ok", dt |-> AcceptedResult(run[i], ct),
               path |-> "llm", calls |-> i, fuzzy |-> 0]
    ELSE IF i < max_retries
    THEN Attempt(i + 1, run, fz, ct)
    ELSE LET f == fallback_datetime_extraction(fz, ct)
         IN  IF f.kind = "ok"
             THEN [kind |-> "ok", dt |-> f.dt, path |-> "fuzzy",
                   calls |-> i, fuzzy |-> 1]
             ELSE [kind |-> "DateTimeExtractionError", dt |-> ct,
                   path |-> "none", calls |-> i, fuzzy |-> 1]

extract_datetime(run, fz, ct) == Attempt(1, run, fz, ct)

(* ----------------------- services/nlp_service.py ----------------------- *)
\* the datetime part of _extract_entities: the start_time put into the
\* entities, or the ValueError "Failed to extract entities"
ExtractTime(run, fz, ct, clock) ==
    LET r == extract_datetime(run, fz, ct)
    IN  IF r.kind = "ok"
        THEN r
        ELSE IF r.kind = "DateTimeExtractionError"
        THEN LET a == adjust_to_business_hours(Naive(clock), TRUE)
             IN  IF a.kind = "ok"
                 THEN [kind |-> "ok", dt |-> a.dt, path |-> "now"]
                 ELSE [kind |-> "EntityExtractionFailed", dt |-> ct,
                       path |-> "none"]
        ELSE [kind |-> "EntityExtractionFailed", dt |-> ct, path |-> "none"]

(* ------------------------------ utterances ---------------------------- *)
\* the commands typed; what the regular expressions of the source find in
\* each of them is tabulated below
Texts ==
    {"ok",
     "cancel booking #42",
     "cancel my booking",
     "cancel booking 00000000-0000-4000-8000-000000000001",
     "show my bookings then cancel my booking",
     "list all bookings",
     "get details of my booking",
     "find my booking 00000000-0000-4000-8000-000000000001",
     "book a plumber for tomorrow at 2pm",
     "book a technician",
     "asdfqwerty",
     "i need someone to fix a leak"}

\* _validate_input: at least settings.MIN_INPUT_LENGTH = 3 characters
ValidInput(text) == text # "ok"

\* the labels of intent_patterns one of whose patterns re.search finds in
\* the lower-cased text
PatternIntents(text) ==
    CASE text \in {"cancel booking #42", "cancel my booking",
                   "cancel booking 00000000-0000-4000-8000-000000000001"}
            -> {"Cancel a booking"}
      [] text = "show my bookings then cancel my booking"
            -> {"Cancel a booking", "List all bookings"}
      [] text = "list all bookings" -> {"List all bookings"}
      [] text \in {"get details of my booking",
                   "find my booking 00000000-0000-4000-8000-000000000001"}
            -> {"Retrieve booking details"}
      [] text \in {"book a plumber for tomorrow at 2pm", "book a technician"}
            -> {"Create a booking"}
      [] OTHER -> {}

\* _extract_booking_id: the uuid or number found (the uuid ...0001 is the
\* first id the store draws; 42 is no uuid), 0 for None
BookingIdIn(text) ==
    CASE text = "cancel booking #42" -> 42
      [] text \in {"cancel booking 00000000-0000-4000-8000-000000000001",
                   "find my booking 00000000-0000-4000-8000-000000000001"} -> 1
      [] OTHER -> 0

\* the first profession of settings.PROFESSION_KEYWORDS one of whose keywords
\* occurs in the lower-cased text, "" when none does
KeywordProfession(text) ==
    CASE text \in {"book a plumber for tomorrow at 2pm",
                   "i need someone to fix a leak"} -> "plumber"
      [] OTHER -> ""

\* the keys of intent_patterns, in the order the dict lists them
INTENT_ORDER ==
    <<"Cancel a booking", "List all bookings", "Retrieve booking details",
      "Create a booking">>

\* a mapping that sends a label it does not know to create_booking
INTENT_LABEL_MAPPING_total(label) ==
    CASE label = "Cancel a booking" -> "cancel_booking"
      [] label = "Retrieve booking details" -> "retrieve_booking"
      [] label = "List all bookings" -> "list_bookings"
      [] OTHER -> "create_booking"

\* NLPService.INTENT_LABEL_MAPPING.get(label), "" for None
INTENT_LABEL_MAPPING(label) ==
    CASE label = "Create a booking" -> "create_booking"
      [] label = "Cancel a booking" -> "cancel_booking"
      [] label = "Retrieve booking details" -> "retrieve_booking"
      [] label = "List all bookings" -> "list_bookings"
      [] OTHER -> ""

\* what the zero-shot classifier answers: its top label among
\* settings.CANDIDATE_INTENTS (a list the environment can set, so a label
\* outside the mapping is possible) and the score of it, in hundredths
ClassifierOutputs ==
    [label : {"Create a booking", "Cancel a booking",
              "Retrieve booking details", "List all bookings",
              "Reschedule a booking"},
     score : {INTENT_CONFIDENCE_THRESHOLD - 1, INTENT_CONFIDENCE_THRESHOLD}]

\* the person names _process_ner_results draws from the labeling model's
\* answer, "" for a key left out
NerNames == [customer_name : {""}, technician_name : {"", "Bob"}]

\* the entities when nothing was extracted
NoEntities ==
    [booking_id |-> 0, customer_name |-> "", technician_name |-> "",
     profession |-> "", start_time |-> Naive(0)]

\* what an interpreter call returned or raised: kind is "ok" or the error
Interpreted(op, text, kind, intent, confidence, consulted, data, path) ==
    [op |-> op, text |-> text, kind |-> kind, intent |-> intent,
     confidence |-> confidence, consulted |-> consulted, data |-> data,
     path |-> path]

\* a classification in which the last matching intent of the table wins
classify_intent_last(text, cls) ==
    LET hits == {i \in DOMAIN INTENT_ORDER :
                    INTENT_ORDER[i] \in PatternIntents(text)}
        last == CHOOSE i \in hits : \A j \in hits : j <= i
    IN  IF hits # {}
        THEN [kind |-> "ok", label |-> INTENT_ORDER[last],
              confidence |-> PATTERN_CONFIDENCE, consulted |-> FALSE]
        ELSE IF cls.score < INTENT_CONFIDENCE_THRESHOLD
        THEN [kind |-> "AmbiguousIntent", label |-> cls.label,
              confidence |-> cls.score, consulted |-> TRUE]
        ELSE [kind |-> "ok", label |-> cls.label, confidence |-> cls.score,
              consulted |-> TRUE]

\* settings.INTENT_CONFIDENCE_THRESHOLD as _classify_intent reads it: the
\* value of the environment once _validate_settings has accepted it, the
\* default otherwise
ConfiguredThreshold ==
    IF helper.op = "validate_settings" /\ helper.kind = "ok"
    THEN helper.threshold
    ELSE INTENT_CONFIDENCE_THRESHOLD

\* a classification that returns the classifier's top label whatever its
\* score
classify_intent_any_score(text, cls) ==
    LET hits == {i \in DOMAIN INTENT_ORDER :
                    INTENT_ORDER[i] \in PatternIntents(text)}
    IN  IF hits # {}
        THEN [kind |-> "ok", label |-> INTENT_ORDER[FirstOf(hits)],
              confidence |-> PATTERN_CONFIDENCE, consulted |-> FALSE]
        ELSE [kind |-> "ok", label |-> cls.label, confidence |-> cls.score,
              consulted |-> TRUE]

\* NLPService._classify_intent: the label and confidence, and whether the
\* zero-shot classifier was called
classify_intent(text, cls) ==
    LET hits == {i \in DOMAIN INTENT_ORDER :
                    INTENT_ORDER[i] \in PatternIntents(text)}
    IN  IF hits # {}
        THEN [kind |-> "ok", label |-> INTENT_ORDER[FirstOf(hits)],
              confidence |-> PATTERN_CONFIDENCE, consulted |-> FALSE]
        ELSE IF cls.score < ConfiguredThreshold
        THEN [kind |-> "AmbiguousIntent", label |-> cls.label,
              confidence |-> cls.score, consulted |-> TRUE]
        ELSE [kind |-> "ok", label |-> cls.label, confidence |-> cls.score,
              consulted |-> TRUE]

\* NLPService._extract_entities: booking id, names, keyword profession and
\* start_time
extract_entities(text, names, run, fz, ct, clock) ==
    LET tm == ExtractTime(run, fz, ct, clock)
    IN  IF tm.kind # "ok"
        THEN [kind |-> "EntityExtractionFailed", data |-> NoEntities,
              path |-> "none"]
        ELSE [kind |-> "ok",
              data |-> [booking_id |-> BookingIdIn(text),
                        customer_name |-> names.customer_name,
                        technician_name |-> names.technician_name,
                        profession |-> KeywordProfession(text),
                        start_time |-> tm.dt],
              path |-> tm.path]

\* NLPService._validate_intent_requirements: "ok" or the ValueError
validate_intent_requirements(intent, data) ==
    IF intent \in {"cancel_booking", "retrieve_booking"} /\ data.booking_id = 0
    THEN "MissingBookingId"
    ELSE IF intent = "create_booking" /\ data.profession = ""
    THEN "MissingProfession"
    ELSE "ok"

\* settings.DEFAULT_PROFESSION
DEFAULT_PROFESSION == "Plumber"

\* NLPService._ensure_profession(data, text): the data it leaves.  No method
\* of the class calls it.
ensure_profession(data, text) ==
    IF data.profession = ""
    THEN [data EXCEPT !.profession =
            IF KeywordProfession(text) # "" THEN KeywordProfession(text)
            ELSE DEFAULT_PROFESSION]
    ELSE data

\* NLPService.parse_user_input: the ParsedCommand, or the error raised
parse_user_input(text, cls, names, run, fz, ct, clock) ==
    LET c == classify_intent(text, cls)
        intent == INTENT_LABEL_MAPPING(c.label)
        e == extract_entities(text, names, run, fz, ct, clock)
        v == validate_intent_requirements(intent, e.data)
        Raise(kind, intnt) ==
            Interpreted("parse", text, kind, intnt, c.confidence, c.consulted,
                        NoEntities, "none")
    IN  IF ~ValidInput(text)
        THEN Interpreted("parse", text, "InvalidInput", "", 0, FALSE,
                         NoEntities, "none")
        ELSE IF c.kind # "ok" THEN Raise(c.kind, "")
        ELSE IF intent = "" THEN Raise("UnknownIntent", "")
        ELSE IF e.kind # "ok" THEN Raise(e.kind, intent)
        ELSE IF v # "ok" THEN Raise(v, intent)
        ELSE Interpreted("parse", text, "ok", intent, c.confidence,
                         c.consulted, e.data, e.path)

(* ------------------------ interpreter operations ----------------------- *)
\* the interpreter is constructed at one of the clock times
InitNlp ==
    /\ store = [i \in {} |-> 0]
    /\ nextId = 1
    /\ now \in ClockTimes
    /\ result = NoResult
    /\ th = [t \in Threads |-> Idle]
    /\ live = {}
    /\ current_time = Aware(now)
    /\ parsed = NoParse
    /\ helper = NoHelper

\* one whole parse_user_input call
ParseUserInput(text, cls, names, run, fz) ==
    /\ parsed' = parse_user_input(text, cls, names, run, fz, current_time, now)
    /\ UNCHANGED <<store, nextId, now, result, th, live, current_time, helper>>

\* one whole _extract_entities call
ExtractEntities(text, names, run, fz) ==
    /\ \E e \in {extract_entities(text, names, run, fz, current_time, now)} :
           parsed' = Interpreted("extract", text, e.kind, "", 0, FALSE,
                                 e.data, e.path)
    /\ UNCHANGED <<store, nextId, now, result, th, live, current_time, helper>>

\* the wall clock is read later
ClockAdvance(c) ==
    /\ c > now
    /\ now' = c
    /\ UNCHANGED <<store, nextId, result, th, live, current_time, parsed,
                   helper>>

\* the generative runs tried with every utterance: an accepted output within
\* business hours, an exception after a rejected output, and three rejected
\* outputs
ParseRuns ==
    {[i \in 1..max_retries |->
        IF i = 1 THEN [kind |-> "valid", day |-> MaxDay + 1, hour |-> 9,
                       minute |-> 30]
        ELSE [kind |-> "malformed"]],
     [i \in 1..max_retries |->
        IF i = 1 THEN [kind |-> "badrange"]
        ELSE IF i = 2 THEN LlmThrows ELSE [kind |-> "malformed"]],
     [i \in 1..max_retries |-> [kind |-> "malformed"]]}

\* the utterances in which a pattern is found, and the others
PatternTexts == {text \in Texts : PatternIntents(text) # {}}
FreeTexts == Texts \ PatternTexts

\* what the classifier would have answered to an utterance it is not given
WouldPrefer ==
    {[label |-> "List all bookings", score |-> INTENT_CONFIDENCE_THRESHOLD],
     [label |-> "Create a booking", score |-> INTENT_CONFIDENCE_THRESHOLD - 1]}

\* the text of the _extract_entities calls
BookText == "book a plumber for tomorrow at 2pm"
NoFuzzy == [kind |-> "fail"]

NextNlp ==
    \/ \E text \in PatternTexts, cls \in WouldPrefer, names \in NerNames,
          run \in ParseRuns :
            ParseUserInput(text, cls, names, run, NoFuzzy)
    \/ \E text \in FreeTexts, cls \in ClassifierOutputs, names \in NerNames,
          run \in ParseRuns :
            ParseUserInput(text, cls, names, run, NoFuzzy)
    \/ \E run \in LlmRunsAnswered, names \in NerNames :
            ExtractEntities(BookText, names, run, NoFuzzy)
    \/ \E run \in LlmRunsRejected, fz \in FuzzyResults, names \in NerNames :
            ExtractEntities(BookText, names, run, fz)
    \/ \E c \in ClockTimes : ClockAdvance(c)

SpecNlp == InitNlp /\ [][NextNlp]_vars

(* ------------------------ configured threshold ------------------------- *)
\* the values INTENT_CONFIDENCE_THRESHOLD is given in the environment, in
\* hundredths: below 0, the bounds 0 and 1, the default, the confidence of a
\* pattern match, just above it, and above 1
Thresholds == {-1, 0, INTENT_CONFIDENCE_THRESHOLD, PATTERN_CONFIDENCE,
               PATTERN_CONFIDENCE + 1, 100, 101}

\* the scores of the classifier's top label, in hundredths
Scores == {0, INTENT_CONFIDENCE_THRESHOLD - 1, INTENT_CONFIDENCE_THRESHOLD,
           PATTERN_CONFIDENCE, PATTERN_CONFIDENCE + 1, 100}

\* NLPService._validate_settings: the check of the threshold
validate_settings(threshold) ==
    IF ~(0 <= threshold /\ threshold <= 100) THEN "ValueError" ELSE "ok"

\* NLPService() is constructed with the threshold of the environment
InitThreshold ==
    /\ store = [i \in {} |-> 0]
    /\ nextId = 1
    /\ now \in ClockTimes
    /\ result = NoResult
    /\ th = [t \in Threads |-> Idle]
    /\ live = {}
    /\ current_time = Aware(now)
    /\ parsed = NoParse
    /\ helper \in [op : {"settings"}, threshold : Thresholds, kind : {"none"}]

\* __init__ calls _validate_settings first; its ValueError ends the
\* construction
ValidateSettings ==
    /\ helper.op = "settings"
    /\ helper' = [helper EXCEPT !.op = "validate_settings",
                                !.kind = validate_settings(helper.threshold)]
    /\ UNCHANGED <<store, nextId, now, result, th, live, current_time, parsed>>

\* the interpreter answers once it has been constructed
Constructed == helper.op = "validate_settings" /\ helper.kind = "ok"

NextThreshold ==
    \/ ValidateSettings
    \/ \E text \in PatternTexts, cls \in WouldPrefer, names \in NerNames,
          run \in ParseRuns :
            Constructed /\ ParseUserInput(text, cls, names, run, NoFuzzy)
    \/ \E text \in FreeTexts, label \in {"List all bookings", "Reschedule a booking"},
          score \in Scores, names \in NerNames, run \in ParseRuns :
            Constructed /\ ParseUserInput(text, [label |-> label, score |-> score],
                                          names, run, NoFuzzy)

SpecThreshold == InitThreshold /\ [][NextThreshold]_vars

(* -------------------- routers/bookings.py: /commands ------------------- *)
\* process_command on store db, from the return of its parse_user_input call
\* (p) on: the store afterwards and the outcome of the booking operation.
\* parse_user_input read the clock at clock; validate_booking_time reads it
\* again, elapsed ticks later.
process_command(p, elapsed, clock, db, nid) ==
    LET booking_create ==
            [customer_name |-> IF p.data.customer_name = ""
                               THEN "Anonymous" ELSE p.data.customer_name,
             technician_name |-> IF p.data.technician_name = ""
                                 THEN "Unknown Tech"
                                 ELSE p.data.technician_name,
             profession |-> p.data.profession,
             start_time |-> p.data.start_time]
    IN  IF p.kind # "ok"
        THEN [parsed |-> p, db |-> db,
              out |-> Outcome("command", "ParseError", 0, -1, -1)]
        ELSE IF p.intent = "list_bookings"
        THEN [parsed |-> p, db |-> db,
              out |-> ReadOutcome("list", 0, get_all_bookings(db))]
        ELSE IF p.intent = "retrieve_booking"
        THEN [parsed |-> p, db |-> db,
              out |-> ReadOutcome("get", p.data.booking_id,
                                  get_booking_by_id(db, p.data.booking_id))]
        ELSE IF p.intent = "create_booking"
        THEN LET r == CallCreate(booking_create, FALSE, db, clock + elapsed, nid)
             IN  [parsed |-> p, db |-> r.db, out |-> r.out]
        ELSE LET r == cancel_booking(db, p.data.booking_id)
             IN  [parsed |-> p, db |-> r.db,
                  out |-> Outcome("cancel", r.ret, 0, -1, -1)]

\* one whole POST /commands
ProcessCommand(text, cls, names, run, fz, elapsed) ==
    /\ \E p \in {parse_user_input(text, cls, names, run, fz, current_time,
                                   now)} :
       \E r \in {process_command(p, elapsed, now, store, nextId)} :
           /\ r.out.kind = "ok" /\ r.out.op = "create" => nextId <= MaxIds
           /\ parsed' = r.parsed
           /\ store' = r.db
           /\ result' = r.out
           /\ nextId' = IF r.out.kind = "ok" /\ r.out.op = "create"
                        THEN nextId + 1 ELSE nextId
           /\ live' = IF r.out.kind = "ok" /\ r.out.op = "create"
                      THEN live \cup {r.db[r.out.id]}
                      ELSE IF r.out.op = "cancel" /\ r.out.kind = "True"
                      THEN {b \in live : b.id # r.parsed.data.booking_id}
                      ELSE live
    /\ UNCHANGED <<now, th, current_time, helper>>

\* the classifier's answers tried with the commands, and the labeling
\* model's
CommandCls ==
    [label : {"Create a booking"},
     score : {INTENT_CONFIDENCE_THRESHOLD - 1, INTENT_CONFIDENCE_THRESHOLD}]
CommandNames == [customer_name : {""}, technician_name : {"Bob"}]

NextCommand ==
    \/ \E text \in Texts, cls \in CommandCls, run \in ParseRuns,
          names \in CommandNames, elapsed \in {0, 1} :
            ProcessCommand(text, cls, names, run, NoFuzzy, elapsed)
    \/ \E c \in ClockTimes : ClockAdvance(c)

SpecCommand == InitNlp /\ [][NextCommand]_vars

(* ================== helpers of the command interpreter ================= *)
(* ------------------ NLPService._extract_booking_id --------------------- *)
\* longest text, in tokens
MaxTokens == 3

\* the numbers written in the texts
RefNumbers == {7, 9}

\* a text is a sequence of tokens separated by blanks:
\*   word      a word without digits, trigger word or "id" ("please")
\*   paid      a word that ends in the letters "id" ("paid", "grid")
\*   trigger   "cancel", one of the trigger words
\*   labeled   "booking N", "id N" or "#N"
\*   number    N on its own
\*   uuid      00000000-0000-4000-8000-000000000001
RefTokens ==
    {[k |-> "word"], [k |-> "paid"], [k |-> "trigger"], [k |-> "uuid"]}
    \cup [k : {"labeled"}, label : {"booking", "id", "#"}, n : RefNumbers]
    \cup [k : {"number"}, n : RefNumbers]

RefTexts == UNION {[1..n -> RefTokens] : n \in 0..MaxTokens}

\* what _extract_booking_id returns: the uuid, a number, or None
RefUuid == [kind |-> "uuid", n |-> 0]
RefNumber(n) == [kind |-> "number", n |-> n]
RefNone == [kind |-> "none", n |-> 0]

\* the positions at which re.search finds the pattern of the list, with the
\* digits of its group: r"booking\s*#?\s*(\d+)", r"id\s*#?\s*(\d+)" (which
\* has no word boundary before "id"), r"#\s*(\d+)", r"\bid\s*(\d+)\b"
PatternAt(pat, text, i) ==
    LET tok == text[i]
        nxt == IF i < Len(text) THEN text[i + 1] ELSE [k |-> "word"]
    IN  CASE pat = 1 ->
               IF tok.k = "labeled" /\ tok.label = "booking"
               THEN RefNumber(tok.n) ELSE RefNone
          [] pat = 2 ->
               IF tok.k = "labeled" /\ tok.label = "id"
               THEN RefNumber(tok.n)
               ELSE IF tok.k = "paid" /\ nxt.k = "number"
               THEN RefNumber(nxt.n)
               ELSE IF tok.k = "paid" /\ nxt.k = "labeled" /\ nxt.label = "#"
               THEN RefNumber(nxt.n)
               ELSE IF tok.k = "paid" /\ nxt.k = "uuid"
               THEN RefNumber(0)
               ELSE RefNone
          [] pat = 3 ->
               IF tok.k = "labeled" /\ tok.label = "#"
               THEN RefNumber(tok.n) ELSE RefNone
          [] pat = 4 ->
               IF tok.k = "labeled" /\ tok.label = "id"
               THEN RefNumber(tok.n) ELSE RefNone

\* re.search(pat, text): the group of the leftmost match, or None
SearchPattern(pat, text) ==
    LET hits == {i \in DOMAIN text : PatternAt(pat, text, i) # RefNone}
    IN  IF hits = {} THEN RefNone ELSE PatternAt(pat, text, FirstOf(hits))

\* the loop over the four patterns, from pattern pat on
RECURSIVE NumericPatterns(_, _)
NumericPatterns(pat, text) ==
    IF pat > 4 THEN RefNone
    ELSE IF SearchPattern(pat, text) # RefNone
    THEN SearchPattern(pat, text)
    ELSE NumericPatterns(pat + 1, text)

\* any(k in text_lower for k in ["cancel", "booking", "retrieve", "find",
\* "details"])
HasTrigger(text) ==
    \E i \in DOMAIN text :
        \/ text[i].k = "trigger"
        \/ text[i].k = "labeled" /\ text[i].label = "booking"

\* re.search(r"\b(\d+)\b", text): the leftmost run of digits between word
\* boundaries; the first group of the uuid is one
StandaloneNumber(text) ==
    LET hits == {i \in DOMAIN text : text[i].k \in {"number", "labeled", "uuid"}}
        tok == text[FirstOf(hits)]
    IN  IF hits = {} THEN RefNone
        ELSE IF tok.k = "uuid" THEN RefNumber(0)
        ELSE RefNumber(tok.n)

\* NLPService._extract_booking_id
extract_booking_id(text) ==
    IF \E i \in DOMAIN text : text[i].k = "uuid"
    THEN RefUuid
    ELSE IF NumericPatterns(1, text) # RefNone
    THEN NumericPatterns(1, text)
    ELSE IF HasTrigger(text) THEN StandaloneNumber(text)
    ELSE RefNone

\* a text is about to be given to _extract_booking_id
InitRef ==
    /\ store = [i \in {} |-> 0]
    /\ nextId = 1
    /\ now = 0
    /\ result = NoResult
    /\ th = [t \in Threads |-> Idle]
    /\ live = {}
    /\ current_time = Aware(now)
    /\ parsed = NoParse
    /\ helper \in [op : {"text"}, text : RefTexts, value : {RefNone}]

\* one whole _extract_booking_id call
ExtractBookingId ==
    /\ helper.op = "text"
    /\ helper' = [op |-> "extract_booking_id", text |-> helper.text,
                  value |-> extract_booking_id(helper.text)]
    /\ UNCHANGED <<store, nextId, now, result, th, live, current_time, parsed>>

NextRef == ExtractBookingId

SpecRef == InitRef /\ [][NextRef]_vars

(* ------------- _calculate_next_occurrence, _next_weekday -------------- *)
\* datetime.weekday(), Monday = 0; day 0 of the clock is a Monday
Weekday(dt) == DayOf(dt) % 7

\* the instants at which the helpers are called: every weekday, at the
\* hours of ClockHours, and the target weekdays
WeekInstants == {d * Day + h * Hour : d \in 0..6, h \in ClockHours}
Weekdays == 0..6

\* a computation that leaves days_ahead at 0 when today is the target
calculate_same_day(current, weekday_target) ==
    LET days_ahead == (weekday_target - Weekday(current) + 7) % 7
    IN  PlusDays(current, days_ahead)

\* DateTimeExtractor._calculate_next_occurrence(weekday_target), current
\* being self.current_time
calculate_next_occurrence(current, weekday_target) ==
    LET days_ahead == (weekday_target - Weekday(current) + 7) % 7
    IN  PlusDays(current, IF days_ahead = 0 THEN 7 ELSE days_ahead)

\* NLPService._next_weekday(now, weekday_target)
next_weekday(current, weekday_target) ==
    LET diff == weekday_target - Weekday(current)
    IN  PlusDays(current, IF diff <= 0 THEN diff + 7 ELSE diff)

\* a weekday computation is about to be made
InitWeek ==
    /\ store = [i \in {} |-> 0]
    /\ nextId = 1
    /\ now \in WeekInstants
    /\ result = NoResult
    /\ th = [t \in Threads |-> Idle]
    /\ live = {}
    /\ current_time = Aware(now)
    /\ parsed = NoParse
    /\ helper \in [op : {"weekday"}, weekday_target : Weekdays,
                    value : {Aware(0)}]

\* one _calculate_next_occurrence call
CalculateNextOccurrence ==
    /\ helper.op = "weekday"
    /\ helper' = [op |-> "calculate_next_occurrence",
                  weekday_target |-> helper.weekday_target,
                  value |-> calculate_next_occurrence(current_time,
                                                      helper.weekday_target)]
    /\ UNCHANGED <<store, nextId, now, result, th, live, current_time, parsed>>

\* one _next_weekday call
NextWeekday ==
    /\ helper.op = "weekday"
    /\ helper' = [op |-> "next_weekday",
                  weekday_target |-> helper.weekday_target,
                  value |-> next_weekday(Naive(now), helper.weekday_target)]
    /\ UNCHANGED <<store, nextId, now, result, th, live, current_time, parsed>>

NextWeek == CalculateNextOccurrence \/ NextWeekday

SpecWeek == InitWeek /\ [][NextWeek]_vars

(* ----------------- NLPService._init_pipeline_with_retry --------------- *)
\* largest value of settings.MODEL_LOAD_RETRIES (its default is 3)
MaxLoadRetries == 3

\* the pipelines NLPService.__init__ loads, one after the other
Pipelines == 1..3

\* what one call of transformers.pipeline gives: the pipeline, one of the
\* two exceptions the loop catches, or another exception
LoaderOutcomes == {"pipeline", "OSError", "PipelineException", "Exception"}

\* the loading loop: retries is settings.MODEL_LOAD_RETRIES, task the
\* pipeline being loaded, attempt the loop variable, calls and outs the
\* number and the outcomes of the loader calls made for this task
Loading(retries, task, is_cached) ==
    [op |-> "init_pipeline", retries |-> retries, task |-> task,
     attempt |-> 0, is_cached |-> is_cached, calls |-> 0, outs |-> <<>>,
     status |-> "loading"]

\* an except clause whose continue keeps the loop variable where it is
after_failure_same_attempt(h) ==
    IF h.is_cached /\ h.attempt = 0
    THEN [h EXCEPT !.is_cached = FALSE]
    ELSE IF h.attempt = h.retries - 1
    THEN [h EXCEPT !.status = "raised"]
    ELSE [h EXCEPT !.attempt = h.attempt + 1]

\* the except (OSError, PipelineException) clause: the first failure of a
\* cached model turns the cache off and goes on to the next attempt; the
\* failure of the last attempt raises RuntimeError
after_failure(h) ==
    IF h.is_cached /\ h.attempt = 0
    THEN [h EXCEPT !.is_cached = FALSE, !.attempt = h.attempt + 1]
    ELSE IF h.attempt = h.retries - 1
    THEN [h EXCEPT !.status = "raised"]
    ELSE [h EXCEPT !.attempt = h.attempt + 1]

\* NLPService.__init__ begins to load its first pipeline
InitLoad ==
    /\ store = [i \in {} |-> 0]
    /\ nextId = 1
    /\ now = 0
    /\ result = NoResult
    /\ th = [t \in Threads |-> Idle]
    /\ live = {}
    /\ current_time = Aware(now)
    /\ parsed = NoParse
    /\ helper \in {Loading(r, 1, c) : r \in 0..MaxLoadRetries, c \in BOOLEAN}

\* one iteration of the loop: the loader is called
LoaderCall(outcome) ==
    /\ helper.op = "init_pipeline"
    /\ helper.status = "loading"
    /\ helper.attempt < helper.retries
    /\ LET called == [helper EXCEPT !.calls = helper.calls + 1,
                                    !.outs = Append(helper.outs, outcome)]
       IN  helper' =
             IF outcome = "pipeline"
             THEN [called EXCEPT !.status = "returned"]
             ELSE IF outcome = "Exception"
             THEN [called EXCEPT !.status = "raised"]
             ELSE after_failure(called)
    /\ UNCHANGED <<store, nextId, now, result, th, live, current_time, parsed>>

\* the for loop ends without a return: RuntimeError("Unexpected pipeline
\* initialization error.")
LoopExhausted ==
    /\ helper.op = "init_pipeline"
    /\ helper.status = "loading"
    /\ helper.attempt >= helper.retries
    /\ helper' = [helper EXCEPT !.status = "raised"]
    /\ UNCHANGED <<store, nextId, now, result, th, live, current_time, parsed>>

\* __init__ goes on to its next pipeline
NextPipeline(is_cached) ==
    /\ helper.op = "init_pipeline"
    /\ helper.status = "returned"
    /\ helper.task + 1 \in Pipelines
    /\ helper' = Loading(helper.retries, helper.task + 1, is_cached)
    /\ UNCHANGED <<store, nextId, now, result, th, live, current_time, parsed>>

NextLoad ==
    \/ \E outcome \in LoaderOutcomes : LoaderCall(outcome)
    \/ LoopExhausted
    \/ \E is_cached \in BOOLEAN : NextPipeline(is_cached)

\* the interpreter's construction is not suspended forever
SpecLoad == InitLoad /\ [][NextLoad]_vars /\ WF_vars(NextLoad)

(* ------------------- vocabulary of the properties --------------------- *)
\* two stored bookings belong to one technician, letter case ignored
SameTech(a, b) == Lower(a.technician_name) = Lower(b.technician_name)

\* the half-open intervals [s1, e1) and [s2, e2) intersect
Intersect(s1, e1, s2, e2) ==
    (IF s1 > s2 THEN s1 ELSE s2) < (IF e1 < e2 THEN e1 ELSE e2)

\* the stored bookings of the technician a request names, letter case ignored
BookingsOf(db, raw) ==
    {i \in DOMAIN db :
        Lower(db[i].technician_name) = Lower(raw.technician_name)}

\* the stored bookings of the request's technician whose interval intersects
\* the requested [start, start + 1h)
Blocking(db, raw) ==
    {i \in BookingsOf(db, raw) :
        Intersect(raw.start_time.t, raw.start_time.t + Hour,
                  db[i].start_time.t, db[i].end_time.t)}

\* the request names a supported profession
Supported(raw) == Lower(raw.profession) \in PROFESSION_KEYWORDS

\* the request passes the profession check and the past-time check: the
\* start can be ordered against the clock and is not before it
PassesChecks(raw, clock) ==
    /\ Supported(raw)
    /\ ~raw.start_time.aware
    /\ raw.start_time.t >= clock

\* what a create call without the bypass flag does in the current state
CreateNow(raw) == CallCreate(raw, FALSE, store, now, nextId)

\* what a cancel call does in the current state
CancelNow(booking_id) == cancel_booking(store, booking_id)

(* ------------------------------- C1 ----------------------------------- *)
\* C1: in every state reached by create and cancel calls, two distinct stored
\* bookings of one technician (letter case ignored) have non-intersecting
\* half-open intervals [start_time, end_time).
C1_NoDoubleBooking ==
    \A a \in DOMAIN store : \A b \in DOMAIN store :
        (a # b /\ SameTech(store[a], store[b])) =>
            ~Intersect(store[a].start_time.t, store[a].end_time.t,
                       store[b].start_time.t, store[b].end_time.t)

\* two bookings of one technician, spelled in different letter case, are
\* stored side by side
C1_Witness ==
    \E a \in DOMAIN store : \E b \in DOMAIN store :
        /\ a # b
        /\ SameTech(store[a], store[b])
        /\ store[a].technician_name # store[b].technician_name
        /\ store[a].end_time.t = store[b].start_time.t

(* ------------------------------- C2 ----------------------------------- *)
\* C2: when creates run concurrently on the shared store, the overlap check
\* and the insert of each create act as one atomic unit: no interleaving
\* leaves two bookings of one technician with intersecting intervals.
C2_AtomicCheckThenInsert ==
    \A a \in DOMAIN store : \A b \in DOMAIN store :
        (a # b /\ SameTech(store[a], store[b])) =>
            \/ store[a].end_time.t <= store[b].start_time.t
            \/ store[b].end_time.t <= store[a].start_time.t

(* ------------------------------- C3 ----------------------------------- *)
\* C3: every booking in the store ends exactly one hour after it starts.
C3_OneHour ==
    \A i \in DOMAIN store :
        /\ store[i].end_time.t = store[i].start_time.t + Hour
        /\ store[i].end_time.aware = store[i].start_time.aware

\* a create has just stored a booking
C3_Witness ==
    result.op = "create" /\ result.kind = "ok" /\ result.id \in DOMAIN store

(* ------------------------------- C4 ----------------------------------- *)
\* C4: a create without the bypass flag whose start_time is before the
\* current time fails with the past-booking error and stores nothing; a
\* start_time at or after the current time is not rejected by this check.
\* (Stated for requests with a supported profession, which reach the check.)
C4_PastRejected ==
    [][\A raw \in RawRequests :
          (Supported(raw) /\ CreateBooking(raw, FALSE)) =>
              IF raw.start_time.t < now
              THEN result'.kind = "PastBooking" /\ store' = store
              ELSE result'.kind # "PastBooking"]_vars

(* ------------------------------- C5 ----------------------------------- *)
\* C5: a create called with the bypass flag (system_init) stores the booking
\* although its start_time is in the past, when the profession is supported
\* and the technician has no intersecting booking.
C5_BypassStores ==
    [][\A raw \in SeedRequests :
          (/\ Supported(raw)
           /\ raw.start_time.t < now
           /\ Blocking(store, raw) = {}
           /\ CreateBooking(raw, TRUE)) =>
              /\ result'.kind = "ok"
              /\ DOMAIN store' = DOMAIN store \cup {result'.id}
              /\ result'.id \notin DOMAIN store]_vars

(* ------------------------------- C6 ----------------------------------- *)
\* C6 as claimed: a create for technician T whose interval intersects the
\* interval of a stored booking of T fails with the time-conflict error naming
\* the blocking interval, and the store is unchanged.  (Stated for naive
\* start times, the ones stored start times are ordered against.)
C6_ConflictAlways ==
    [][\A raw \in RawRequests :
          (/\ ~raw.start_time.aware
           /\ Blocking(store, raw) # {}
           /\ CreateBooking(raw, FALSE)) =>
              /\ result'.kind = "TimeConflict"
              /\ \E i \in Blocking(store, raw) :
                    /\ result'.from = store[i].start_time.t
                    /\ result'.to = store[i].end_time.t
              /\ store' = store]_vars

\* C6 as amended: a create for technician T that passes the profession check
\* and the past-time check and whose interval intersects the interval of a
\* stored booking of T fails with the time-conflict error, which names the
\* interval of a stored booking of T that intersects the request, and the
\* store is unchanged.
C6_ConflictAfterChecks ==
    \A raw \in RawRequests :
        (PassesChecks(raw, now) /\ Blocking(store, raw) # {}) =>
            LET r == CreateNow(raw)
            IN  /\ r.out.kind = "TimeConflict"
                /\ \E i \in Blocking(store, raw) :
                      /\ r.out.from = store[i].start_time.t
                      /\ r.out.to = store[i].end_time.t
                /\ r.db = store

\* a create was refused for a conflict, and the error names the interval of a
\* booking of the store
C6_Witness ==
    /\ result.kind = "TimeConflict"
    /\ result.id \in DOMAIN store
    /\ store[result.id].start_time.t = result.from
    /\ store[result.id].end_time.t = result.to

(* ------------------------------- C7 ----------------------------------- *)
\* C7: touching boundaries are no conflict: when technician T has a stored
\* booking [s, s+1h), a create for T starting exactly at s+1h, and one
\* starting exactly at s-1h, succeed (the profession being supported, the
\* start not in the past, and every booking of T ending by the requested
\* start or starting no earlier than the requested end).
C7_TouchingAllowed ==
    \A raw \in RawRequests :
        (/\ PassesChecks(raw, now)
         /\ \E i \in BookingsOf(store, raw) :
               \/ raw.start_time.t = store[i].end_time.t
               \/ raw.start_time.t + Hour = store[i].start_time.t
         /\ \A i \in BookingsOf(store, raw) :
               \/ store[i].end_time.t <= raw.start_time.t
               \/ raw.start_time.t + Hour <= store[i].start_time.t) =>
            LET r == CreateNow(raw)
            IN  /\ r.out.kind = "ok"
                /\ nextId \in DOMAIN r.db
                /\ r.db[nextId].start_time = raw.start_time

\* the booking stored last touches another booking of its technician
C7_Witness ==
    /\ result.kind = "ok"
    /\ result.id \in DOMAIN store
    /\ \E i \in DOMAIN store :
          /\ i # result.id
          /\ SameTech(store[i], store[result.id])
          /\ \/ store[i].end_time.t = store[result.id].start_time.t
             \/ store[result.id].end_time.t = store[i].start_time.t

(* ------------------------------- C8 ----------------------------------- *)
\* C8: no false conflicts: a create that passes the profession and past-time
\* checks succeeds whenever no stored booking of the same technician (letter
\* case ignored) intersects its interval; bookings of another technician at
\* the same time and bookings of the same technician two hours or more away
\* never block it.
C8_NoFalseConflict ==
    \A raw \in RawRequests :
        (PassesChecks(raw, now) /\ Blocking(store, raw) = {}) =>
            LET r == CreateNow(raw)
            IN  /\ r.out.kind = "ok"
                /\ DOMAIN r.db = DOMAIN store \cup {nextId}
                /\ \A i \in DOMAIN store : r.db[i] = store[i]
                /\ r.db[nextId].technician_name = raw.technician_name
                /\ r.db[nextId].start_time = raw.start_time

\* the booking stored last shares its start with a booking of another
\* technician
C8_Witness ==
    /\ result.kind = "ok"
    /\ result.id \in DOMAIN store
    /\ \E i \in DOMAIN store :
          /\ ~SameTech(store[i], store[result.id])
          /\ store[i].start_time = store[result.id].start_time

(* ------------------------------- C9 ----------------------------------- *)
\* C9: cancelling an id that is not in the store (never created, or already
\* cancelled) returns false, raises nothing and leaves the store unchanged,
\* each time it is done.
C9_CancelMissing ==
    \A booking_id \in Ids :
        booking_id \notin DOMAIN store =>
            LET r == CancelNow(booking_id)
            IN  r.ret = "False" /\ r.db = store

\* a cancel has returned false for an id that had been cancelled before,
\* while another booking was stored
C9_Witness ==
    /\ result.op = "cancel"
    /\ result.kind = "False"
    /\ \E i \in Ids : i < nextId /\ i \notin DOMAIN store
    /\ DOMAIN store # {}

(* ------------------------------- C10 ---------------------------------- *)
\* C10: cancelling the id of a stored booking returns true, removes that
\* booking and no other, and afterwards the id is not found.
C10_CancelStored ==
    \A booking_id \in Ids :
        booking_id \in DOMAIN store =>
            LET r == CancelNow(booking_id)
            IN  /\ r.ret = "True"
                /\ DOMAIN r.db = DOMAIN store \ {booking_id}
                /\ \A j \in DOMAIN store \ {booking_id} : r.db[j] = store[j]
                /\ get_booking_by_id(r.db, booking_id) = None

\* a cancel has returned true and another booking is still stored
C10_Witness ==
    result.op = "cancel" /\ result.kind = "True" /\ DOMAIN store # {}

(* ------------------------------- C11 ---------------------------------- *)
\* C11: the profession check of the create operation accepts a create
\* exactly when the profession, letter case ignored, is a key of the keyword
\* table: a supported profession is never refused for its profession, and any
\* other value (the "Unknown Profession" placeholder included) makes the
\* create fail with the "Unsupported profession" error of the create
\* operation, the store unchanged.
C11_UnsupportedProfession ==
    [][\A raw \in RawRequests :
          CreateBooking(raw, FALSE) =>
              IF Supported(raw)
              THEN result'.kind \notin {"UnsupportedProfession", "ValidationError"}
              ELSE result'.kind = "UnsupportedProfession" /\ store' = store]_vars

(* ------------------------------- C12 ---------------------------------- *)
\* C12: after any sequence of creates and cancels, get_all_bookings returns
\* exactly the bookings that were created successfully and not cancelled
\* since (nothing when there are none), and get_booking_by_id(id) returns the
\* booking of that id when it is one of them and None otherwise; the values
\* the last list and get calls returned are those.
C12_ReadsMatchHistory ==
    /\ get_all_bookings(store) = live
    /\ \A booking_id \in Ids :
          LET b == get_booking_by_id(store, booking_id)
          IN  IF \E l \in live : l.id = booking_id
              THEN b \in live /\ b.id = booking_id
              ELSE b = None
    /\ result.op = "list" => result.value = live
    /\ result.op = "get" =>
          IF \E l \in live : l.id = result.id
          THEN result.value \in live /\ result.value.id = result.id
          ELSE result.value = None

\* a list call has returned one booking after another booking had been
\* created and cancelled
C12_Witness ==
    /\ result.op = "list"
    /\ Cardinality(result.value) = 1
    /\ nextId > MaxIds
    /\ result.value = live

(* ------------------------------- C13 ---------------------------------- *)
\* the place of an intent label in the order cancel, list, retrieve, create
TableRank(label) ==
    CASE label = "Cancel a booking" -> 1
      [] label = "List all bookings" -> 2
      [] label = "Retrieve booking details" -> 3
      [] label = "Create a booking" -> 4

\* C13: when a pattern of at least one intent is found in the text, intent
\* resolution returns the first intent, in the order cancel, list, retrieve,
\* create, that has a matching pattern, with confidence 0.95 and without
\* calling the zero-shot classifier, whatever the classifier would have
\* answered; every parse of such a text carries that intent and confidence.
C13_PatternPrecedence ==
    /\ \A text \in PatternTexts, cls \in ClassifierOutputs :
          \A c \in {classify_intent(text, cls)} :
              /\ c.kind = "ok"
              /\ c.label \in PatternIntents(text)
              /\ \A l \in PatternIntents(text) :
                    TableRank(c.label) <= TableRank(l)
              /\ c.confidence = 95
              /\ ~c.consulted
    /\ parsed.op = "parse" /\ parsed.text \in PatternTexts =>
          /\ parsed.confidence = 95
          /\ ~parsed.consulted
          /\ \E l \in PatternIntents(parsed.text) :
                /\ parsed.intent = INTENT_LABEL_MAPPING(l)
                /\ \A m \in PatternIntents(parsed.text) :
                      TableRank(l) <= TableRank(m)

\* "cancel booking #42" was parsed into a cancel of booking 42 by its
\* pattern, the classifier not called
C13_Witness ==
    /\ parsed.op = "parse"
    /\ parsed.text = "cancel booking #42"
    /\ parsed.kind = "ok"
    /\ parsed.intent = "cancel_booking"
    /\ parsed.data.booking_id = 42
    /\ parsed.confidence = 95
    /\ ~parsed.consulted

(* ------------------------------- C14 ---------------------------------- *)
\* the labels that have an internal intent
MappedLabels ==
    {"Create a booking", "Cancel a booking", "Retrieve booking details",
     "List all bookings"}

\* C14: when no pattern is found in the text, the classifier is asked; a top
\* score below the confidence threshold makes the parse fail with the
\* ambiguous-intent error, no ParsedCommand produced; a top score at or above
\* the threshold makes the top label's internal intent the intent of the
\* parse, and a top label without internal intent makes the parse fail with
\* the unknown-intent error.
C14_ClassifierThreshold ==
    /\ \A text \in FreeTexts, cls \in ClassifierOutputs :
          \A c \in {classify_intent(text, cls)} :
              /\ c.consulted
              /\ IF cls.score < 40
                 THEN c.kind = "AmbiguousIntent"
                 ELSE c.kind = "ok" /\ c.label = cls.label
                         /\ c.confidence = cls.score
    /\ \A text \in {t \in FreeTexts : ValidInput(t)},
          cls \in ClassifierOutputs, names \in NerNames, run \in ParseRuns :
          \A p \in {parse_user_input(text, cls, names, run, NoFuzzy,
                                      current_time, now)} :
              IF cls.score < 40
              THEN p.kind = "AmbiguousIntent" /\ p.data = NoEntities
              ELSE IF cls.label \in MappedLabels
              THEN /\ p.kind \notin {"AmbiguousIntent", "UnknownIntent"}
                   /\ p.intent = INTENT_LABEL_MAPPING(cls.label)
              ELSE p.kind = "UnknownIntent" /\ p.data = NoEntities
    /\ parsed.op = "parse" /\ parsed.kind = "AmbiguousIntent" =>
          parsed.consulted /\ parsed.confidence < 40
                           /\ parsed.data = NoEntities

\* "asdfqwerty", in which no pattern is found, was refused as ambiguous on a
\* classifier score just below the threshold
C14_Witness ==
    /\ parsed.op = "parse"
    /\ parsed.text = "asdfqwerty"
    /\ parsed.kind = "AmbiguousIntent"
    /\ parsed.consulted
    /\ parsed.confidence = 39

(* ------------------------------- C15 ---------------------------------- *)
\* C15: a command resolved to cancel_booking or retrieve_booking from which
\* no booking reference was extracted is rejected with the error saying that
\* the booking id is required for that intent: no ParsedCommand is returned
\* and the store operation is not performed.
C15_MissingBookingId ==
    /\ parsed.op = "parse"
    /\ parsed.intent \in {"cancel_booking", "retrieve_booking"}
    /\ BookingIdIn(parsed.text) = 0
    => /\ parsed.kind = "MissingBookingId"
       /\ result.op = "command" /\ result.kind = "ParseError"

(* ------------------------------- C16 ---------------------------------- *)
\* C16: when a create_booking command is assembled and the extracted
\* entities hold no profession, the profession is filled as
\* _ensure_profession fills it, with the keyword-detected value or else the
\* default profession, and the command is produced, not rejected.
C16_ProfessionFilled ==
    /\ parsed.op = "parse"
    /\ parsed.intent = "create_booking"
    /\ parsed.kind # "EntityExtractionFailed"
    => /\ parsed.kind = "ok"
       /\ parsed.data.profession =
            ensure_profession([parsed.data EXCEPT !.profession = ""],
                              parsed.text).profession

C18_LastResort ==
    parsed.op = "extract" =>
        /\ parsed.kind = "ok"
        /\ parsed.path \notin {"llm", "fuzzy"} =>
              \E c \in ClockTimes :
                  /\ c <= now
                  /\ parsed.data.start_time.t = (c \div Day + 1) * Day + 9 * Hour

(* ------------------------------- C19 ---------------------------------- *)
\* C19: every instant the datetime extractor returns, from an accepted
\* generative output or from the fuzzy-parse fallback, is strictly later
\* than the clock at the call, whatever date the output names and however
\* long ago the extractor was constructed.
C19_StrictlyFuture ==
    [][/\ parsed' # parsed
       /\ parsed'.op = "extract"
       /\ parsed'.kind = "ok"
       /\ parsed'.path \in {"llm", "fuzzy"}
       => parsed'.data.start_time.t > now]_vars

(* ------------------------------- C20 ---------------------------------- *)
\* C20: when a free-text command is parsed into a create and its data are
\* passed to the create operation, the start_time of the interpreter is
\* comparable with the clock of the time validation and is not rejected by
\* it: the create succeeds, or fails for its profession or for a scheduling
\* conflict only.
C20_TimeSemanticsAgree ==
    /\ parsed.op = "parse"
    /\ parsed.kind = "ok"
    /\ parsed.intent = "create_booking"
    /\ result.op = "create"
    => result.kind \in {"ok", "UnsupportedProfession", "ValidationError",
                        "TimeConflict"}

(* ------------------------------- C21 ---------------------------------- *)
\* the three predefined seed bookings, each one hour long, ids set aside
SeedBookings ==
    {Booking(0, initial_bookings[i], initial_bookings[i].start_time,
             PlusHour(initial_bookings[i].start_time)) :
        i \in DOMAIN initial_bookings}

\* C21: a run of load_initial_data on an empty store leaves exactly the
\* three seed bookings in the store, each one hour long, and a run on a
\* store that is not empty changes nothing.
C21_SeedingEffective ==
    [][LoadInitialData =>
          IF DOMAIN store = {}
          THEN /\ result'.kind = "ok"
               /\ {[b EXCEPT !.id = 0] : b \in get_all_bookings(store')}
                     = SeedBookings
          ELSE store' = store]_vars

(* ------------------------------- C22 ---------------------------------- *)
\* C22: a command in which a list-bookings pattern is found (and no cancel
\* pattern before it) is always returned as a ParsedCommand of intent
\* list_bookings, whatever the extraction of a booking reference, of a
\* profession or of a time gives and whatever the time of day.
C22_ListAlwaysParsed ==
    /\ parsed.op = "parse"
    /\ parsed.text = "list all bookings"
    => parsed.kind = "ok" /\ parsed.intent = "list_bookings"

(* ------------------------------- C23 ---------------------------------- *)
\* the numbers that the text labels, in the order of the labeled patterns
\* ("booking N", then "id N", then "#N") and from the left within one label
LabeledNumbers(text, label) ==
    {i \in DOMAIN text : text[i].k = "labeled" /\ text[i].label = label}

\* the reference of the three-stage priority
PriorityReference(text) ==
    IF \E i \in DOMAIN text : text[i].k = "uuid"
    THEN RefUuid
    ELSE IF LabeledNumbers(text, "booking") # {}
    THEN RefNumber(text[FirstOf(LabeledNumbers(text, "booking"))].n)
    ELSE IF LabeledNumbers(text, "id") # {}
    THEN RefNumber(text[FirstOf(LabeledNumbers(text, "id"))].n)
    ELSE IF LabeledNumbers(text, "#") # {}
    THEN RefNumber(text[FirstOf(LabeledNumbers(text, "#"))].n)
    ELSE IF /\ \E i \in DOMAIN text : text[i].k = "trigger"
            /\ \E i \in DOMAIN text : text[i].k = "number"
    THEN RefNumber(text[FirstOf({i \in DOMAIN text :
                                    text[i].k = "number"})].n)
    ELSE RefNone

\* C23: booking-reference extraction returns the uuid when the text holds
\* one; otherwise the number of the first labeled pattern ("booking N",
\* "id N", "#N") found; otherwise, when a trigger word is present, the first
\* number standing on its own; otherwise nothing.  A number standing on its
\* own never takes the place of a uuid or of a labeled number of the text.
C23_ReferencePriority ==
    helper.op = "extract_booking_id" =>
        helper.value = PriorityReference(helper.text)

(* ------------------------------- C24 ---------------------------------- *)
\* C24: for every current weekday and every target weekday, each of the two
\* next-occurrence computations returns an instant a whole number of days,
\* between 1 and 7, after the current one, on the target weekday; exactly 7
\* days ahead when today is the target weekday; and the two computations
\* give the same offset.
C24_NextOccurrence ==
    /\ helper.op \in {"calculate_next_occurrence", "next_weekday"} =>
          \E k \in 1..7 :
              /\ helper.value.t = now + k * Day
              /\ (helper.value.t \div Day) % 7 = helper.weekday_target
              /\ (now \div Day) % 7 = helper.weekday_target => k = 7
    /\ \A weekday_target \in Weekdays :
          calculate_next_occurrence(current_time, weekday_target).t
            = next_weekday(Naive(now), weekday_target).t

\* on the target weekday itself, _calculate_next_occurrence returned the
\* instant one week later
C24_Witness ==
    /\ helper.op = "calculate_next_occurrence"
    /\ (now \div Day) % 7 = helper.weekday_target
    /\ helper.value = Aware(now + 7 * Day)

(* ------------------------------- C25 ---------------------------------- *)
\* C25: whatever the loader calls give, _init_pipeline_with_retry calls the
\* loader at most MODEL_LOAD_RETRIES times and then ends, returning the
\* pipeline the last call gave or raising; it never stays in its loop and
\* never returns without a pipeline.
C25_BoundedLoading ==
    /\ [](/\ helper.calls <= helper.retries
          /\ Len(helper.outs) = helper.calls
          /\ helper.status = "returned" =>
                /\ helper.calls >= 1
                /\ helper.outs[helper.calls] = "pipeline"
          /\ \A i \in 1..(helper.calls - 1) : helper.outs[i] # "pipeline")
    /\ (helper.status = "loading") ~> (helper.status \in {"returned", "raised"})

\* the loader was called MODEL_LOAD_RETRIES times, each call failing, and
\* the loading ended with the fatal error
C25_Witness ==
    /\ helper.op = "init_pipeline"
    /\ helper.status = "raised"
    /\ helper.retries = MaxLoadRetries
    /\ helper.calls = helper.retries
    /\ \A i \in 1..helper.calls : helper.outs[i] \in {"OSError", "PipelineException"}

C27_ConfidenceAboveThreshold ==
    parsed.op = "parse" /\ parsed.kind = "ok" =>
        parsed.confidence >= ConfiguredThreshold

\* C27 (amended): a ParsedCommand of a pattern-matched intent carries the
\* confidence 0.95 whatever the threshold; a ParsedCommand of a
\* classifier-derived intent carries the classifier's score, which is
\* greater than or equal to the configured threshold; so the confidence is
\* below the threshold only for a pattern match under a threshold above 0.95.
C27_ConfidenceFloor ==
    parsed.op = "parse" /\ parsed.kind = "ok" =>
        /\ ConfiguredThreshold \in 0..100
        /\ ~parsed.consulted => parsed.confidence = 95
        /\ parsed.consulted => parsed.confidence >= ConfiguredThreshold
        /\ ConfiguredThreshold <= 95 =>
              parsed.confidence >= ConfiguredThreshold

C27_Witness ==
    /\ parsed.op = "parse" /\ parsed.kind = "ok"
    /\ ~parsed.consulted
    /\ ConfiguredThreshold = 100
    /\ parsed.confidence = 95

(* ------------------------------- C28 ---------------------------------- *)
\* C28: the store gains a booking only through a successful create: a create
\* that fails, whatever the reason (unsupported profession, past start,
\* scheduling conflict, an error raised while the existing bookings are
\* scanned, a missing key), leaves the store exactly as it was.
C28_FailedCreateNoEffect ==
    /\ [](\A raw \in RawRequests :
             \A r \in {CreateNow(raw)} :
                 r.out.kind # "ok" => r.db = store)
    /\ [](\A parsed_data \in LlmParsed :
             \A r \in {create_booking_from_llm(parsed_data, store, now, nextId)} :
                 r.out.kind # "ok" => r.db = store)
    /\ [][/\ (result'.op = "create" /\ result'.kind # "ok") => store' = store
          /\ ~(DOMAIN store' \subseteq DOMAIN store) =>
                /\ result'.op = "create" /\ result'.kind = "ok"
                /\ DOMAIN store' = DOMAIN store \cup {result'.id}]_vars

\* a create has been refused for a conflict while bookings were stored, and
\* a create of a dict without start_time would be refused too
C28_Witness ==
    /\ result.op = "create"
    /\ result.kind = "TimeConflict"
    /\ result.id \in DOMAIN store
    /\ \E parsed_data \in LlmParsed :
          create_booking_from_llm(parsed_data, store, now, nextId).out.kind
              = "MissingField"

(* ------------------------------- C29 ---------------------------------- *)
\* C29: a successful create stores the new booking under a key equal to the
\* booking's own id, and that id differs from the id of every booking
\* already stored, so no stored booking is overwritten or removed; in every
\* reachable state store[k].id = k for every key k.
C29_KeyIsId ==
    /\ \A k \in DOMAIN store : store[k].id = k
    /\ \A raw \in RawRequests :
          \A r \in {CreateNow(raw)} :
              r.out.kind = "ok" =>
                  /\ r.out.id \notin DOMAIN store
                  /\ \A k \in DOMAIN store : store[k].id # r.out.id
                  /\ DOMAIN r.db = DOMAIN store \cup {r.out.id}
                  /\ r.db[r.out.id].id = r.out.id
                  /\ \A k \in DOMAIN store : r.db[k] = store[k]

\* a second booking has been stored beside the first
C29_Witness ==
    /\ result.op = "create"
    /\ result.kind = "ok"
    /\ result.id \in DOMAIN store
    /\ store[result.id].id = result.id
    /\ \E k \in DOMAIN store : k # result.id /\ store[k].id = k

(* ------------------------------- C30 ---------------------------------- *)
\* C30: cancellation frees the slot: once a booking has been cancelled it
\* takes no part in conflict checks, so a create for the same technician at
\* the same start, which only that booking blocked, then succeeds.
C30_CancelFreesSlot ==
    \A booking_id \in DOMAIN store :
        \A c \in {CancelNow(booking_id)} :
            /\ booking_id \notin ScanStops(c.db, store[booking_id].technician_name,
                                           store[booking_id].start_time,
                                           store[booking_id].end_time)
            /\ \A raw \in QueryRequests :
                  (/\ SameTech(raw, store[booking_id])
                   /\ raw.start_time = store[booking_id].start_time
                   /\ CreateNow(raw).out.kind = "TimeConflict"
                   /\ Blocking(store, raw) = {booking_id}) =>
                      \A r \in {CallCreate(raw, FALSE, c.db, now, nextId)} :
                          /\ r.out.kind = "ok"
                          /\ r.db[r.out.id].start_time = raw.start_time
                          /\ booking_id \notin DOMAIN r.db

\* the last create was refused because of one stored booking of the same
\* technician at the same start, and of no other
C30_Witness ==
    /\ result.op = "create"
    /\ result.kind = "TimeConflict"
    /\ result.id \in DOMAIN store
    /\ \E raw \in QueryRequests :
          /\ SameTech(raw, store[result.id])
          /\ raw.start_time = store[result.id].start_time
          /\ Blocking(store, raw) = {result.id}
          /\ CreateNow(raw).out.kind = "TimeConflict"
          /\ CallCreate(raw, FALSE, CancelNow(result.id).db, now, nextId).out.kind = "ok"

====
